---- MODULE Spec2Model ----
(***************************************************************************)
(* A model of cli/cppcheckexecutor.cpp: the command line driver of         *)
(* Cppcheck.  CppCheckExecutor prepares the file set (parseFromArgs),      *)
(* dispatches the analysis (check, check_wrapper, check_internal), reports *)
(* fatal faults (CppcheckSignalHandler, filterException) and is the        *)
(* ErrorLogger of the run (reportErr, reportOut, reportStatus, ...).       *)
(*                                                                         *)
(* Strings written to a stream are modelled as 6-tuples                    *)
(*     <<kind, id, file, a, b, c>>                                         *)
(* and a path as the sequence of its characters.  Everything the program   *)
(* writes, and every call it makes into the analysis engine, is appended  *)
(* to the history variable trace in program order.                         *)
(***************************************************************************)
EXTENDS Integers, Sequences, FiniteSets, TLC

VARIABLES
    pc,             \* position of the driver
    platform,       \* build: "posix" (USE_UNIX_SIGNAL_HANDLING), "windows" (USE_WINDOWS_SEH), "other"
    parser,         \* what CmdLineParser::ParseFromArgs produced
    fs,             \* the file system seen through FileLister
    library,        \* settings.library: cfg loading and the markup predicates
    settings,       \* the Settings of the run
    errorlist,      \* CppCheckExecutor::errorlist
    _errorList,     \* CppCheckExecutor::_errorList, the strings already written
    _files,         \* CppCheckExecutor::_files: path -> size
    time1,          \* CppCheckExecutor::time1
    exceptionOutput,\* CppCheckExecutor::exceptionOutput
    handlers,       \* signals whose disposition is CppcheckSignalHandler
    loc,            \* the locals of check_internal
    ret,            \* value returned by the function that returned last
    calls,          \* history: the arguments of reportErr(const std::string&)
    trace           \* history: stream writes and engine calls, in order

vars == <<pc, platform, parser, fs, library, settings, errorlist, _errorList,
          _files, time1, exceptionOutput, handlers, loc, ret, calls, trace>>

----------------------------------------------------------------------------
(* Bounds of the model *)

\* reportErr calls made from outside the driver (engine callbacks) in one run
MaxReports == 1
\* source lines a diagnostic may be located at: 1..MaxLine
MaxLine == 2
\* entries of the file set handed to check_internal
MaxFiles == 2
\* file sizes: 0..MaxSize
MaxSize == 1
\* entries of settings._includePaths
MaxIncludePaths == 2
\* entries of parser.GetIgnoredPaths()
MaxIgnored == 2
\* entries of parser.GetPathNames()
MaxPathNames == 2

\* unsigned int is 32 bits wide: a value is <<high, low>>, two 16 bit halves
UIntHalf == 65536
EXIT_SUCCESS == 0
EXIT_FAILURE == 1

----------------------------------------------------------------------------
(* Sequences and paths *)

Range(s) == {s[k] : k \in 1..Len(s)}

SeqsUpTo(S, n) == UNION {[1..k -> S] : k \in 0..n}

\* character codes, for std::string comparison
CharCode(ch) ==
    CASE ch = "." -> 46
      [] ch = "/" -> 47
      [] ch = "\\" -> 92
      [] ch = "A" -> 65
      [] ch = "a" -> 97
      [] ch = "b" -> 98
      [] ch = "c" -> 99
      [] ch = "h" -> 104
      [] ch = "i" -> 105
      [] ch = "m" -> 109
      [] ch = "p" -> 112
      [] ch = "q" -> 113
      [] OTHER -> 0

\* std::string operator< : lexicographic on character codes
RECURSIVE StrLess(_, _)
StrLess(s, t) ==
    IF t = <<>> THEN FALSE
    ELSE IF s = <<>> THEN TRUE
    ELSE IF CharCode(Head(s)) # CharCode(Head(t))
         THEN CharCode(Head(s)) < CharCode(Head(t))
         ELSE StrLess(Tail(s), Tail(t))

\* the keys of a std::map<std::string, ...> in iteration order
RECURSIVE MapOrder(_)
MapOrder(S) ==
    IF S = {} THEN <<>>
    ELSE LET first == CHOOSE p \in S : \A q \in S \ {p} : StrLess(p, q)
         IN  <<first>> \o MapOrder(S \ {first})

NoPath == <<>>

----------------------------------------------------------------------------
(* unsigned int arithmetic, modulo 2^32 *)

UIntZero == <<0, 0>>
UIntOne == <<0, 1>>
UIntMax == <<UIntHalf - 1, UIntHalf - 1>>

\* a + b as unsigned int
UIntAdd(a, b) ==
    LET low == a[2] + b[2]
        high == a[1] + b[1] + (low \div UIntHalf)
    IN  <<high % UIntHalf, low % UIntHalf>>

----------------------------------------------------------------------------
(* Rendered text and the history *)

Text(kind, id, file, a, b, c) == <<kind, id, file, a, b, c>>

NoText == Text("", "", "", 0, 0, 0)

Event(ch, text, path) == [ch |-> ch, text |-> text, path |-> path]

Written(ch) == SelectSeq(trace, LAMBDA e : e.ch = ch)

\* the contents of std::cerr and std::cout
cerr == LET w == Written("cerr") IN [k \in 1..Len(w) |-> w[k].text]
cout == LET w == Written("cout") IN [k \in 1..Len(w) |-> w[k].text]

\* diagnostics of the engine: ErrorLogger::ErrorMessage
MsgIds == {"nullPointer"}
MsgFiles == {"a.c"}
Messages == [id : MsgIds, file : MsgFiles, line : 1..MaxLine]

OutputFormats == {"", "{id}"}
XmlVersions == {1, 2}

Flag(b) == IF b THEN 1 ELSE 0

\* ErrorMessage::toString(verbose, outputFormat): the default layout names the
\* location, a template names what it asks for
toString(msg, verbose, outputFormat) ==
    IF outputFormat = ""
    THEN Text("text", msg.id, msg.file, msg.line, Flag(verbose), 0)
    ELSE Text("text", msg.id, "", 0, 0, 0)

\* ErrorMessage::toXML(verbose, version)
toXML(msg, verbose, version) ==
    Text("xml", msg.id, msg.file, msg.line, Flag(verbose), version)

getXMLHeader(version) == Text("XMLHeader", "", "", 0, 0, version)
getXMLFooter(version) == Text("XMLFooter", "", "", 0, 0, version)

----------------------------------------------------------------------------
(* The Diagnostic Sink: pure versions, threaded through a record           *)
(*   S = [errorList, calls, trace]                                         *)

Sink == [errorList |-> _errorList, calls |-> calls, trace |-> trace]

SetSink(S) ==
    /\ _errorList' = S.errorList
    /\ calls' = S.calls
    /\ trace' = S.trace

Write(S, ch, text) == [S EXCEPT !.trace = Append(@, Event(ch, text, NoPath))]

Call(S, op, path) == [S EXCEPT !.trace = Append(@, Event(op, NoText, path))]

\* mutant of reportErrString: the duplicate check is lost
reportErrString_NoDedup(S, errmsg) ==
    Write([S EXCEPT !.calls = Append(@, errmsg),
                    !.errorList = @ \cup {errmsg}], "cerr", errmsg)

\* CppCheckExecutor::reportErr(const std::string &errmsg)
reportErrString(S, errmsg) ==
    LET S1 == [S EXCEPT !.calls = Append(@, errmsg)]
    IN  IF errmsg \in S1.errorList
        THEN S1
        ELSE Write([S1 EXCEPT !.errorList = @ \cup {errmsg}], "cerr", errmsg)

\* CppCheckExecutor::reportOut(const std::string &outmsg)
reportOut(S, outmsg) == Write(S, "cout", outmsg)

\* CppCheckExecutor::reportErr(const ErrorLogger::ErrorMessage &msg), for a
\* given value of the member errorlist
reportErrMessageIn(S, msg, isErrorlist) ==
    IF isErrorlist
    THEN reportOut(S, toXML(msg, FALSE, settings._xml_version))
    ELSE IF settings._xml
    THEN reportErrString(S, toXML(msg, settings._verbose, settings._xml_version))
    ELSE reportErrString(S, toString(msg, settings._verbose, settings._outputFormat))

\* CppCheckExecutor::reportErr(const ErrorLogger::ErrorMessage &msg)
reportErrMessage(S, msg) == reportErrMessageIn(S, msg, errorlist)

\* CppCheckExecutor::reportInfo(const ErrorLogger::ErrorMessage &msg)
reportInfo(S, msg) == reportErrMessage(S, msg)

\* mutant of reportStatus: the status line is written for a single file too
reportStatus_AlwaysWrites(S, fileindex, filecount, sizedone, sizetotal) ==
    Write(Write(Write(S, "reportStatus", Text("", "", "", fileindex, filecount, 0)),
                "reportStatus.sizes", Text("", "", "", sizedone, sizetotal, 0)),
          "cout", Text("status", "", "", fileindex, filecount,
                       IF sizetotal > 0 THEN (sizedone * 100) \div sizetotal ELSE 0))

\* CppCheckExecutor::reportStatus(fileindex, filecount, sizedone, sizetotal): the
\* call is entered in the history with its arguments, and the status line is
\* written when there is more than one file
reportStatus(S, fileindex, filecount, sizedone, sizetotal) ==
    LET S1 == Write(Write(S, "reportStatus", Text("", "", "", fileindex, filecount, 0)),
                    "reportStatus.sizes", Text("", "", "", sizedone, sizetotal, 0))
    IN  IF filecount > 1
        THEN Write(S1, "cout",
                   Text("status", "", "", fileindex, filecount,
                        IF sizetotal > 0 THEN (sizedone * 100) \div sizetotal ELSE 0))
        ELSE S1

----------------------------------------------------------------------------
(* The settings and the collaborators *)

DefaultSettings ==
    [_xml |-> FALSE, _xml_version |-> 1, _verbose |-> FALSE, _outputFormat |-> "",
     _errorsOnly |-> FALSE, _jobs |-> 1, _exitCode |-> 0, _includePaths |-> <<>>,
     exceptionHandling |-> FALSE, reportProgress |-> FALSE, posix |-> FALSE,
     information |-> FALSE, missingInclude |-> FALSE, checkConfiguration |-> FALSE,
     terminated |-> FALSE]

DefaultParser ==
    [success |-> TRUE, showVersion |-> FALSE, showErrorMessages |-> FALSE,
     exitAfterPrinting |-> FALSE, pathNames |-> <<>>, ignoredPaths |-> <<>>,
     includePaths |-> <<>>]

DefaultFs == [dirs |-> {}, files |-> <<>>]

DefaultLibrary ==
    [stdOK |-> TRUE, posixOK |-> TRUE, markup |-> {}, after |-> {},
     threads |-> TRUE, unmatchedSuppressions |-> FALSE, missingIncludeFlag |-> FALSE]

NoLoc ==
    [returnValue |-> UIntZero, totalfilesize |-> 0, processedsize |-> 0, c |-> 0,
     pass |-> 0, i |-> 0, reports |-> 0]

----------------------------------------------------------------------------
(* Specification of the sink alone: any sequence of calls of the           *)
(* ErrorLogger interface on one CppCheckExecutor                            *)

\* calls of the ErrorLogger interface in one run of the sink
MaxCalls == 3

\* the calls made so far: each appends to calls or writes to std::cout
SinkCalls == Len(calls) + Len(cout)

\* strings a caller may hand to reportErr(const std::string&) directly
Strings ==
    {toString(m, FALSE, "") : m \in Messages}
    \cup {toXML(m, FALSE, settings._xml_version) : m \in Messages}
    \cup {getXMLHeader(settings._xml_version), getXMLFooter(settings._xml_version)}

InitSink ==
    /\ pc = "sink"
    /\ platform = "posix"
    /\ parser = DefaultParser
    /\ fs = DefaultFs
    /\ library = DefaultLibrary
    /\ \E x \in BOOLEAN, v \in XmlVersions, f \in OutputFormats :
          settings = [DefaultSettings EXCEPT !._xml = x, !._xml_version = v,
                                             !._outputFormat = f]
    /\ errorlist \in BOOLEAN
    /\ _errorList = {}
    /\ _files = <<>>
    /\ time1 = 0
    /\ exceptionOutput = ""
    /\ handlers = {}
    /\ loc = NoLoc
    /\ ret = 0
    /\ calls = <<>>
    /\ trace = <<>>

SinkUnchanged ==
    UNCHANGED <<pc, platform, parser, fs, library, settings, errorlist, _files,
                time1, exceptionOutput, handlers, loc, ret>>

\* a caller hands a rendered string to reportErr(const std::string&)
CallReportErrString ==
    /\ pc = "sink"
    /\ SinkCalls < MaxCalls
    /\ \E errmsg \in Strings : SetSink(reportErrString(Sink, errmsg))
    /\ SinkUnchanged

\* a caller hands a message to reportErr(const ErrorMessage&)
CallReportErrMessage ==
    /\ pc = "sink"
    /\ SinkCalls < MaxCalls
    /\ \E msg \in Messages : SetSink(reportErrMessage(Sink, msg))
    /\ SinkUnchanged

\* a caller hands a message to reportInfo
CallReportInfo ==
    /\ pc = "sink"
    /\ SinkCalls < MaxCalls
    /\ \E msg \in Messages : SetSink(reportInfo(Sink, msg))
    /\ SinkUnchanged

\* a caller hands a string to reportOut
CallReportOut ==
    /\ pc = "sink"
    /\ SinkCalls < MaxCalls
    /\ \E msg \in Messages : SetSink(reportOut(Sink, toString(msg, FALSE, "")))
    /\ SinkUnchanged

NextSink ==
    \/ CallReportErrString
    \/ CallReportErrMessage
    \/ CallReportInfo
    \/ CallReportOut

SpecSink == InitSink /\ [][NextSink]_vars

----------------------------------------------------------------------------
(* Observations of the sink *)

\* the strings of a sequence, each kept at its first occurrence only
RECURSIVE FirstOccurrences(_)
FirstOccurrences(s) ==
    IF s = <<>> THEN <<>>
    ELSE LET front == SubSeq(s, 1, Len(s) - 1)
             rest == FirstOccurrences(front)
         IN  IF s[Len(s)] \in Range(front) THEN rest ELSE Append(rest, s[Len(s)])

\* C1: std::cerr holds every string handed to reportErr(const std::string&)
\* exactly once, written at the first call that reported it: a repeated string
\* writes nothing, strings that differ (if only in the location) write one line
\* each, and the number of lines equals the number of distinct strings reported.
C1_WrittenOncePerDistinctString ==
    /\ cerr = FirstOccurrences(calls)
    /\ Len(cerr) = Cardinality(Range(calls))
    /\ \A j, k \in 1..Len(cerr) : cerr[j] = cerr[k] => j = k

\* three calls: one string twice, and one that differs from it in the line only
C1_Witness ==
    /\ Len(calls) = 3
    /\ calls[1] = calls[2]
    /\ calls[3] # calls[1]
    /\ calls[3] = [calls[1] EXCEPT ![4] = calls[3][4]]
    /\ Len(cerr) = 2

----------------------------------------------------------------------------
(* Paths, the library's predicates and the engine *)

\* the files a run may find, in no particular order
AllFiles ==
    << <<"a", ".", "c">>, <<"b", ".", "h">>, <<"m", ".", "q", "m", "l">>,
       <<"c", ".", "h", "p", "p">> >>

\* position of the last "." of a path, 0 when it has none
RECURSIVE LastDot(_)
LastDot(path) ==
    IF path = <<>> THEN 0
    ELSE IF path[Len(path)] = "." THEN Len(path)
    ELSE LastDot(SubSeq(path, 1, Len(path) - 1))

\* Path::getFilenameExtension: the path from its last "." on
getFilenameExtension(path) ==
    IF LastDot(path) = 0 THEN <<>> ELSE SubSeq(path, LastDot(path), Len(path))

\* Library::markupFile and Library::processMarkupAfterCode: by extension
markupFile(path) == getFilenameExtension(path) \in library.markup
processMarkupAfterCode(path) == getFilenameExtension(path) \in library.after

\* what CppCheck::check and ThreadExecutor::check may return
DefectCounts == {UIntZero, UIntOne, UIntMax}

CountText(n) == Text("count", "", "", n[1], n[2], 0)

\* the diagnostics the engine finds in the analysed files
EngineMessages == {m \in Messages : m.line = 1}

\* a message the driver builds itself: no location
DriverMessage(id) == [id |-> id, file |-> "", line |-> 0]

\* the keys of _files in iteration order
Keys == MapOrder(DOMAIN _files)

\* mutant of FirstLoopTakes: the first loop takes every file
FirstLoopTakes_All(path) == TRUE

\* the condition of the first loop of check_internal
FirstLoopTakes(path) == ~markupFile(path) \/ ~processMarkupAfterCode(path)

\* mutant of SecondLoopTakes: every markup file is taken again
SecondLoopTakes_AnyMarkup(path) == markupFile(path)

\* the condition of the second loop of check_internal
SecondLoopTakes(path) == markupFile(path) /\ processMarkupAfterCode(path)

----------------------------------------------------------------------------
(* check_internal *)

DispatchUnchanged ==
    UNCHANGED <<platform, parser, fs, library, errorlist, _files,
                exceptionOutput, handlers>>

\* mutant of ExitStatus: the configured exit code is returned whatever was found
ExitStatus_Always(returnValue) == settings._exitCode

\* the return statement of check_internal
ExitStatus(returnValue) ==
    IF returnValue # UIntZero THEN settings._exitCode ELSE 0

\* the header of a structured run
EmitHeader(S) ==
    IF settings._xml
    THEN reportErrString(S, getXMLHeader(settings._xml_version))
    ELSE S

\* the footer of a structured run
EmitFooter(S) ==
    IF settings._xml
    THEN reportErrString(S, getXMLFooter(settings._xml_version))
    ELSE S

\* the sum of the sizes of all files of _files
RECURSIVE SumSizes(_)
SumSizes(keys) ==
    IF keys = <<>> THEN 0 ELSE _files[Head(keys)] + SumSizes(Tail(keys))

\* mutant of DispatchMode: ThreadExecutor::isEnabled() is not asked
DispatchMode_NoEnabledCheck ==
    IF settings._jobs = 1 THEN "single" ELSE "multi"

\* the branch check_internal takes for the worker count and the platform
DispatchMode ==
    IF settings._jobs = 1 THEN "single"
    ELSE IF ~library.threads THEN "nothreads"
    ELSE "multi"

\* both cfg files load: std.cfg, and posix.cfg when the posix standard is on
LoadsOK == library.stdOK /\ (settings.posix => library.posixOK)

\* check_internal from its entry to the first call into the engine: the cfg
\* files are loaded, the header is written and the mode is chosen
CheckInternalEnter ==
    /\ pc = "check_internal"
    /\ LET std == library.stdOK
           posix == IF settings.posix THEN library.posixOK ELSE TRUE
       IN  IF ~std \/ ~posix
           THEN /\ SetSink(reportErrMessage(Sink, DriverMessage("failedToLoadCfg")))
                /\ ret' = EXIT_FAILURE
                /\ pc' = "returned"
                /\ UNCHANGED <<loc, time1>>
           ELSE /\ time1' = IF settings.reportProgress THEN 1 ELSE time1
                /\ CASE DispatchMode = "single" ->
                          /\ SetSink(EmitHeader(Sink))
                          /\ loc' = [NoLoc EXCEPT !.totalfilesize = SumSizes(Keys),
                                                  !.pass = 1, !.i = 1]
                          /\ pc' = "loop"
                     [] DispatchMode = "nothreads" ->
                          /\ SetSink(Write(EmitHeader(Sink), "cout",
                                           Text("No thread support", "", "", 0, 0, 0)))
                          /\ loc' = NoLoc
                          /\ pc' = "finish"
                     [] DispatchMode = "multi" ->
                          /\ SetSink(Call(EmitHeader(Sink), "ThreadExecutor::check", NoPath))
                          /\ loc' = NoLoc
                          /\ pc' = "executor"
                /\ ret' = ret
    /\ UNCHANGED settings
    /\ DispatchUnchanged

\* mutant of CallCheckFunctionUsage: the post-pass is left out
CallCheckFunctionUsage_Skipped(S) == S

\* the call of CppCheck::checkFunctionUsage after the two loops
CallCheckFunctionUsage(S) == Call(S, "checkFunctionUsage", NoPath)

\* one evaluation of a loop header and condition: the file at the iterator is
\* handed to CppCheck::check, or skipped, or the loop ends
LoopStep ==
    /\ pc = "loop"
    /\ IF loc.i > Len(Keys)
       THEN IF loc.pass = 1
            THEN /\ loc' = [loc EXCEPT !.pass = 2, !.i = 1]
                 /\ pc' = "loop"
                 /\ UNCHANGED <<_errorList, calls, trace>>
            ELSE /\ SetSink(CallCheckFunctionUsage(Sink))
                 /\ pc' = "checkFunctionUsage"
                 /\ loc' = loc
       ELSE LET path == Keys[loc.i]
                takes == IF loc.pass = 1 THEN FirstLoopTakes(path)
                                         ELSE SecondLoopTakes(path)
            IN  IF takes
                THEN /\ SetSink(Call(Sink, "check", path))
                     /\ pc' = "check"
                     /\ loc' = loc
                ELSE /\ loc' = [loc EXCEPT !.i = @ + 1]
                     /\ pc' = "loop"
                     /\ UNCHANGED <<_errorList, calls, trace>>
    /\ UNCHANGED <<settings, time1, ret>>
    /\ DispatchUnchanged

\* the engine, while it runs, reports a diagnostic to its ErrorLogger
EngineReportErr ==
    /\ pc \in {"check", "checkFunctionUsage", "executor"}
    /\ loc.reports < MaxReports
    /\ \E msg \in EngineMessages : SetSink(reportErrMessage(Sink, msg))
    /\ loc' = [loc EXCEPT !.reports = @ + 1]
    /\ UNCHANGED <<pc, settings, time1, ret>>
    /\ DispatchUnchanged

\* CppCheck::check returns: the rest of the loop body
CheckReturn ==
    /\ pc = "check"
    /\ \E n \in DefectCounts :
          LET path == Keys[loc.i]
              processedsize == loc.processedsize + _files[path]
              S1 == [Sink EXCEPT !.trace = Append(@, Event("return", CountText(n), path))]
          IN  /\ SetSink(IF ~settings._errorsOnly
                         THEN reportStatus(S1, loc.c + 1, Len(Keys), processedsize,
                                           loc.totalfilesize)
                         ELSE S1)
              /\ loc' = [loc EXCEPT !.returnValue = UIntAdd(@, n),
                                    !.processedsize = processedsize,
                                    !.c = @ + 1,
                                    !.i = @ + 1]
    /\ pc' = "loop"
    /\ UNCHANGED <<settings, time1, ret>>
    /\ DispatchUnchanged

\* CppCheck::checkFunctionUsage returns
CheckFunctionUsageReturn ==
    /\ pc = "checkFunctionUsage"
    /\ pc' = "finish"
    /\ UNCHANGED <<settings, time1, ret, loc, _errorList, calls, trace>>
    /\ DispatchUnchanged

\* ThreadExecutor::check returns the defect count of the whole file set
ExecutorReturn ==
    /\ pc = "executor"
    /\ \E n \in DefectCounts :
          /\ SetSink([Sink EXCEPT !.trace = Append(@, Event("return", CountText(n), NoPath))])
          /\ loc' = [loc EXCEPT !.returnValue = n]
    /\ pc' = "finish"
    /\ UNCHANGED <<settings, time1, ret>>
    /\ DispatchUnchanged

\* the reports made after the dispatch
FinalReports(S) ==
    LET S1 == IF (settings.information \/ settings.checkConfiguration)
                 /\ library.unmatchedSuppressions
              THEN reportErrMessage(S, DriverMessage("unmatchedSuppression"))
              ELSE S
        S2 == IF ~settings.checkConfiguration
              THEN Call(S1, "tooManyConfigsError", NoPath)
              ELSE S1
    IN  IF ~settings.checkConfiguration /\ settings.missingInclude
           /\ library.missingIncludeFlag
        THEN reportInfo(S2, DriverMessage("missingInclude"))
        ELSE S2

\* check_internal from the end of the dispatch to its return
CheckInternalFinish ==
    /\ pc = "finish"
    /\ SetSink(EmitFooter(FinalReports(Sink)))
    /\ ret' = ExitStatus(loc.returnValue)
    /\ pc' = "returned"
    /\ UNCHANGED <<settings, time1, loc>>
    /\ DispatchUnchanged

\* the configurations check_internal is entered with
FileSets ==
    {S \in SUBSET {AllFiles[k] : k \in 1..MaxFiles} : S # {}}

\* the reporting settings of a run: what is enabled for the reports after the
\* dispatch, whether the engine has something to report there, and --quiet
FinishModes ==
    {[information |-> FALSE, checkConfiguration |-> FALSE, missingInclude |-> FALSE,
      reporting |-> FALSE, quiet |-> FALSE],
     [information |-> TRUE, checkConfiguration |-> FALSE, missingInclude |-> TRUE,
      reporting |-> TRUE, quiet |-> FALSE],
     [information |-> FALSE, checkConfiguration |-> TRUE, missingInclude |-> FALSE,
      reporting |-> TRUE, quiet |-> TRUE]}

\* the cfg files: both load, std.cfg fails, posix.cfg fails
LoadModes ==
    {[posix |-> TRUE, stdOK |-> TRUE, posixOK |-> TRUE],
     [posix |-> FALSE, stdOK |-> FALSE, posixOK |-> TRUE],
     [posix |-> TRUE, stdOK |-> TRUE, posixOK |-> FALSE]}

\* the worker count and ThreadExecutor::isEnabled()
JobModes ==
    {[jobs |-> 1, threads |-> TRUE], [jobs |-> 2, threads |-> TRUE],
     [jobs |-> 2, threads |-> FALSE]}

ExitCodes == {0, 2}

\* the library knows some extensions as markup and, of these, which to process
\* after the code; an extension it does not know is processed after the code
Libraries(files, load, job, mode) ==
    LET exts == {getFilenameExtension(f) : f \in files}
    IN  {[stdOK |-> load.stdOK, posixOK |-> load.posixOK, markup |-> markup,
          after |-> (exts \ markup) \cup after, threads |-> job.threads,
          unmatchedSuppressions |-> mode.reporting,
          missingIncludeFlag |-> mode.reporting] :
            markup \in SUBSET exts, after \in SUBSET exts}

Init ==
    /\ pc = "check_internal"
    /\ platform = "posix"
    /\ parser = DefaultParser
    /\ fs = DefaultFs
    /\ \E files \in FileSets, size \in {0, MaxSize}, load \in LoadModes,
          job \in JobModes, mode \in FinishModes, xml \in BOOLEAN,
          exitCode \in ExitCodes :
          /\ _files = [f \in files |-> size]
          /\ library \in Libraries(files, load, job, mode)
          /\ settings = [DefaultSettings EXCEPT
                            !._xml = xml, !._xml_version = IF xml THEN 2 ELSE 1,
                            !._jobs = job.jobs, !._exitCode = exitCode,
                            !._errorsOnly = mode.quiet, !.posix = load.posix,
                            !.information = mode.information,
                            !.checkConfiguration = mode.checkConfiguration,
                            !.missingInclude = mode.missingInclude]
    /\ errorlist = FALSE
    /\ _errorList = {}
    /\ time1 = 0
    /\ exceptionOutput = ""
    /\ handlers = {}
    /\ loc = NoLoc
    /\ ret = 0
    /\ calls = <<>>
    /\ trace = <<>>

Next ==
    \/ CheckInternalEnter
    \/ LoopStep
    \/ EngineReportErr
    \/ CheckReturn
    \/ CheckFunctionUsageReturn
    \/ ExecutorReturn
    \/ CheckInternalFinish

Spec == Init /\ [][Next]_vars

----------------------------------------------------------------------------
(* check and parseFromArgs *)

\* Path::toNativeSeparators: the separator of the other platform becomes the
\* separator of this one
NativeChar(ch) ==
    IF platform = "windows"
    THEN (IF ch = "/" THEN "\\" ELSE ch)
    ELSE (IF ch = "\\" THEN "/" ELSE ch)

toNativeSeparators(path) == [k \in 1..Len(path) |-> NativeChar(path[k])]

\* FileLister::isDirectory
isDirectory(path) == path \in fs.dirs

\* FileLister::recursiveAddFiles for an argument that names a file: the file is
\* added with its size when it exists
recursiveAddFiles(files, path) ==
    IF path \in DOMAIN fs.files
    THEN [f \in DOMAIN files \cup {path} |-> fs.files[f]]
    ELSE files

\* lower case of a character, for matching without case
Lower(ch) == IF ch = "A" THEN "a" ELSE ch

\* a path ends with a mask
EndsWith(path, mask) ==
    /\ Len(mask) <= Len(path)
    /\ SubSeq(path, Len(path) - Len(mask) + 1, Len(path)) = mask

\* PathMatch::Match for masks that name files: some mask is the end of the path
Match(masks, caseSensitive, path) ==
    /\ path # <<>>
    /\ \E k \in 1..Len(masks) :
          IF caseSensitive
          THEN EndsWith(path, masks[k])
          ELSE EndsWith([j \in 1..Len(path) |-> Lower(path[j])],
                        [j \in 1..Len(masks[k]) |-> Lower(masks[k][j])])

\* mutant of CheckIncludePaths: after an erase the iterator is advanced once
\* more, so the path after a removed one is not looked at
RECURSIVE CheckIncludePaths_SkipsAfterErase(_, _, _)
CheckIncludePaths_SkipsAfterErase(todo, kept, S) ==
    IF todo = <<>> THEN [paths |-> kept, S |-> S]
    ELSE LET path == toNativeSeparators(Head(todo))
         IN  IF isDirectory(path)
             THEN CheckIncludePaths_SkipsAfterErase(Tail(todo), Append(kept, Head(todo)), S)
             ELSE LET S1 == IF ~settings._errorsOnly
                            THEN [S EXCEPT !.trace =
                                    Append(@, Event("cout", Text("Couldn't find path given by -I",
                                                                 "", "", 0, 0, 0), path))]
                            ELSE S
                  IN  IF Tail(todo) = <<>>
                      THEN [paths |-> kept, S |-> S1]
                      ELSE CheckIncludePaths_SkipsAfterErase(
                               Tail(Tail(todo)), Append(kept, Head(Tail(todo))), S1)

\* the loop over settings._includePaths: the paths that stay and the warnings
\* written, as [paths, S]
RECURSIVE CheckIncludePaths(_, _, _)
CheckIncludePaths(todo, kept, S) ==
    IF todo = <<>> THEN [paths |-> kept, S |-> S]
    ELSE LET path == toNativeSeparators(Head(todo))
         IN  IF isDirectory(path)
             THEN CheckIncludePaths(Tail(todo), Append(kept, Head(todo)), S)
             ELSE CheckIncludePaths(Tail(todo), kept,
                     IF ~settings._errorsOnly
                     THEN [S EXCEPT !.trace =
                              Append(@, Event("cout", Text("Couldn't find path given by -I",
                                                           "", "", 0, 0, 0), path))]
                     ELSE S)

\* the loop over parser.GetPathNames()
RECURSIVE AddPathNames(_, _)
AddPathNames(files, pathnames) ==
    IF pathnames = <<>> THEN files
    ELSE AddPathNames(recursiveAddFiles(files, toNativeSeparators(Head(pathnames))),
                      Tail(pathnames))

IsHeaderRule(rule) ==
    LET extension == getFilenameExtension(rule)
    IN  extension = <<".", "h">> \/ extension = <<".", "h", "p", "p">>

\* the local copy of the ignored paths after the loop that erases the rules
\* for header files
IgnoredWithoutHeaders == SelectSeq(parser.ignoredPaths, LAMBDA r : ~IsHeaderRule(r))

\* the warning flag of that loop
WarnHeaders == \E k \in 1..Len(parser.ignoredPaths) : IsHeaderRule(parser.ignoredPaths[k])

\* the masks the PathMatch is built from: parser.GetIgnoredPaths()
MatcherMasks == parser.ignoredPaths

\* the build's case sensitivity of path matching
CaseSensitive == platform # "windows"

\* the loop that erases the matched files from _files
FilterFiles(files) ==
    LET keep == {f \in DOMAIN files : ~Match(MatcherMasks, CaseSensitive, f)}
    IN  [f \in keep |-> files[f]]

HeaderWarning1 == Text("filename exclusion does not apply to header (.h and .hpp) files.", "", "", 0, 0, 0)
HeaderWarning2 == Text("Please use --suppress for ignoring results from the header files.", "", "", 0, 0, 0)
NoPathsError == Text("error: could not find or open any of the paths given.", "", "", 0, 0, 0)
AllIgnoredError == Text("error: no files to check - all paths ignored.", "", "", 0, 0, 0)
VersionText == Text("Cppcheck version", "", "", 0, 0, 0)

\* CppCheck::getErrorMessages with errorlist set: the engine hands a sample of
\* its messages to reportErr
getErrorMessages(S) ==
    reportErrMessageIn(Call(S, "getErrorMessages", NoPath),
                       CHOOSE m \in EngineMessages : TRUE, TRUE)

PrepareUnchanged ==
    UNCHANGED <<platform, parser, fs, library, time1, exceptionOutput, handlers, loc>>

\* CppCheckExecutor::parseFromArgs, called by check
ParseFromArgs ==
    /\ pc = "check"
    /\ IF ~parser.success
       THEN /\ ret' = 0
            /\ UNCHANGED <<settings, errorlist, _files, _errorList, calls, trace>>
       ELSE LET S1 == IF parser.showVersion /\ ~parser.showErrorMessages
                      THEN Write(Sink, "cout", VersionText)
                      ELSE Sink
            IN  IF parser.exitAfterPrinting
                THEN /\ errorlist' = parser.showErrorMessages
                     /\ SetSink(IF parser.showErrorMessages
                                THEN Write(getErrorMessages(
                                               Write(S1, "cout", getXMLHeader(settings._xml_version))),
                                           "cout", getXMLFooter(settings._xml_version))
                                ELSE S1)
                     /\ settings' = [settings EXCEPT !.terminated = TRUE]
                     /\ ret' = 1
                     /\ UNCHANGED _files
                ELSE LET inc == CheckIncludePaths(settings._includePaths, <<>>, S1)
                         found == AddPathNames(_files, parser.pathNames)
                         S2 == IF WarnHeaders
                               THEN Write(Write(inc.S, "cout", HeaderWarning1),
                                          "cout", HeaderWarning2)
                               ELSE inc.S
                         left == FilterFiles(found)
                     IN  /\ settings' = [settings EXCEPT !._includePaths = inc.paths]
                         /\ errorlist' = errorlist
                         /\ IF DOMAIN found = {}
                            THEN /\ _files' = found
                                 /\ SetSink(Write(inc.S, "cout", NoPathsError))
                                 /\ ret' = 0
                            ELSE /\ _files' = left
                                 /\ IF DOMAIN left # {}
                                    THEN /\ SetSink(S2)
                                         /\ ret' = 1
                                    ELSE /\ SetSink(Write(S2, "cout", AllIgnoredError))
                                         /\ ret' = 0
    /\ pc' = "parsed"
    /\ PrepareUnchanged

\* mutant of CheckOutcome: the result of parseFromArgs is not looked at
CheckOutcome_IgnoresParse(parsed) ==
    IF settings.terminated THEN "success"
    ELSE IF settings.exceptionHandling THEN "check_wrapper"
    ELSE "check_internal"

\* what check does once parseFromArgs has returned
CheckOutcome(parsed) ==
    IF parsed = 0 THEN "failure"
    ELSE IF settings.terminated THEN "success"
    ELSE IF settings.exceptionHandling THEN "check_wrapper"
    ELSE "check_internal"

\* CppCheckExecutor::check after parseFromArgs: it returns, or calls
\* check_wrapper or check_internal
CheckAfterParse ==
    /\ pc = "parsed"
    /\ LET outcome == CheckOutcome(ret)
       IN  CASE outcome = "failure" -> ret' = EXIT_FAILURE /\ pc' = "exit"
             [] outcome = "success" -> ret' = EXIT_SUCCESS /\ pc' = "exit"
             [] OTHER -> ret' = ret /\ pc' = outcome
    /\ UNCHANGED <<settings, errorlist, _files, _errorList, calls, trace>>
    /\ PrepareUnchanged

\* the command lines: parsing fails, --version, --errorlist, a run
ParserModes ==
    {[success |-> FALSE, showVersion |-> FALSE, showErrorMessages |-> FALSE,
      exitAfterPrinting |-> FALSE],
     [success |-> TRUE, showVersion |-> TRUE, showErrorMessages |-> FALSE,
      exitAfterPrinting |-> TRUE],
     [success |-> TRUE, showVersion |-> FALSE, showErrorMessages |-> TRUE,
      exitAfterPrinting |-> TRUE],
     [success |-> TRUE, showVersion |-> FALSE, showErrorMessages |-> FALSE,
      exitAfterPrinting |-> FALSE]}

\* the files and the arguments of the model name files, not directories
CandidateFiles == {AllFiles[k] : k \in 1..MaxFiles}

\* exclusion rules: two for sources, one in upper case, and two for headers
IgnoreRules ==
    {<<"a", ".", "c">>, <<"A", ".", "c">>, <<"b", ".", "h">>, <<"c", ".", "h", "p", "p">>}

\* include paths: one is spelled with a backslash
IncludeDirs == {<<"i">>, <<"p", "\\", "i">>}

\* the state check starts parseFromArgs in
InitCheck(pathNames, ignoredPaths, includePaths, dirChoices) ==
    /\ pc = "check"
    /\ platform \in {"posix", "windows"}
    /\ \E mode \in ParserModes :
          parser = [success |-> mode.success, showVersion |-> mode.showVersion,
                    showErrorMessages |-> mode.showErrorMessages,
                    exitAfterPrinting |-> mode.exitAfterPrinting,
                    pathNames |-> pathNames, ignoredPaths |-> ignoredPaths,
                    includePaths |-> includePaths]
    /\ \E existing \in SUBSET CandidateFiles, dirs \in dirChoices :
          fs = [dirs |-> dirs, files |-> [f \in existing |-> MaxSize]]
    /\ library = DefaultLibrary
    /\ \E quiet \in BOOLEAN, exceptionHandling \in BOOLEAN :
          settings = [DefaultSettings EXCEPT !._errorsOnly = quiet,
                                             !.exceptionHandling = exceptionHandling,
                                             !._includePaths = includePaths]
    /\ errorlist = FALSE
    /\ _errorList = {}
    /\ _files = <<>>
    /\ time1 = 0
    /\ exceptionOutput = ""
    /\ handlers = {}
    /\ loc = NoLoc
    /\ ret = 0
    /\ calls = <<>>
    /\ trace = <<>>

\* file set preparation: every combination of arguments and exclusion rules
InitPrepare ==
    \E pathNames \in SeqsUpTo(CandidateFiles, MaxPathNames),
       ignoredPaths \in SeqsUpTo(IgnoreRules, MaxIgnored) :
       /\ InitCheck(pathNames, ignoredPaths, <<>>, {{}})
       /\ ~settings._errorsOnly

\* the include path check: every list of include paths
InitInclude ==
    \E pathNames \in SeqsUpTo(CandidateFiles, 1),
       ignoredPaths \in SeqsUpTo({AllFiles[1]}, 1),
       includePaths \in SeqsUpTo(IncludeDirs, MaxIncludePaths) :
       InitCheck(pathNames, ignoredPaths, includePaths,
                 SUBSET {<<"i">>, <<"p", "/", "i">>, <<"p", "\\", "i">>})

NextCheck ==
    \/ ParseFromArgs
    \/ CheckAfterParse

SpecPrepare == InitPrepare /\ [][NextCheck]_vars

SpecInclude == InitInclude /\ [][NextCheck]_vars

----------------------------------------------------------------------------
(* check_wrapper and the fault handlers *)

\* listofsignals: the signals check_wrapper installs CppcheckSignalHandler for
listofsignals == {"SIGBUS", "SIGFPE", "SIGILL", "SIGINT", "SIGSEGV"}

\* the signals a run may receive: those, and two that are left alone
Signals == listofsignals \cup {"SIGABRT", "SIGTERM"}

\* si_code values the handler names, per signal, and one it does not name
SiCodes(signo) ==
    CASE signo = "SIGBUS" -> {"BUS_ADRALN", "other"}
      [] signo = "SIGFPE" -> {"FPE_INTDIV", "other"}
      [] signo = "SIGILL" -> {"ILL_ILLOPC", "other"}
      [] signo = "SIGSEGV" -> {"SEGV_MAPERR", "SEGV_ACCERR", "other"}
      [] OTHER -> {"other"}

\* structured exceptions of the Windows build: two the filter names and one it
\* does not
ExceptionCodes ==
    {"EXCEPTION_ACCESS_VIOLATION", "EXCEPTION_STACK_OVERFLOW", "unknown"}

\* signal_name
signal_name(signo) == IF signo \in listofsignals THEN signo ELSE ""

\* the stream the signal handler writes to
ExceptionFile == IF exceptionOutput = "stderr" THEN "cerr" ELSE "cout"

\* the macro that guards the body of print_stacktrace: nothing defines it (the
\* build defines USE_UNIX_SIGNAL_HANDLING)
USE_UNIX_SIGNAL_SUPPORT == FALSE

\* void *array[32]
StackArrayLength == 32

\* const int offset=3
offset == 3

\* the call stacks a fault can happen with: the number of frames, and whether
\* backtrace_symbols can allocate the symbol strings
Backtraces ==
    {[frames |-> n, symbols |-> b] :
        n \in {2, offset, offset + 2, StackArrayLength + 8}, b \in BOOLEAN}

\* backtrace(array, size): the number of return addresses captured
backtrace(bt, size) == IF bt.frames < size THEN bt.frames ELSE size

\* the loop of print_stacktrace over the captured frames, from frame i
RECURSIVE PrintFrames(_, _, _, _)
PrintFrames(S, f, i, depth) ==
    IF i >= depth THEN S
    ELSE PrintFrames(Write(S, f, Text("#%-2d 0x", "", "", i - offset, i, 0)), f, i + 1, depth)

\* print_stacktrace(f, demangling) when the call stack is bt
print_stacktrace(S, f, demangling, bt) ==
    IF USE_UNIX_SIGNAL_SUPPORT
    THEN LET depth == backtrace(bt, StackArrayLength)
         IN  IF bt.symbols
             THEN PrintFrames(Write(S, f, Text("Callstack:", "", "", 0, 0, 0)), f, offset, depth)
             ELSE Write(S, f, Text("Callstack could not be obtained", "", "", 0, 0, 0))
    ELSE S

\* mutant of AfterSignalHandler: the handler returns to the interrupted code
AfterSignalHandler_Returns == pc

\* the last statement of CppcheckSignalHandler is abort()
AfterSignalHandler == "aborted"

\* CppcheckSignalHandler(signo, info, context): what it writes
SignalReport(S, signo, code, bt) ==
    LET f == ExceptionFile
        S1 == Write(S, f, Text("Internal error: cppcheck received signal",
                              signal_name(signo), "", 0, 0, 0))
        S2 == IF signo \in {"SIGBUS", "SIGFPE", "SIGILL", "SIGSEGV"}
              THEN Write(IF code # "other" THEN Write(S1, f, Text(" - ", code, "", 0, 0, 0))
                                           ELSE S1,
                         f, Text(" (at 0x%p).", "", "", 0, 0, 0))
              ELSE Write(S1, f, Text(".", "", "", 0, 0, 0))
        bPrintCallstack == signo # "SIGINT"
    IN  IF bPrintCallstack
        THEN Write(print_stacktrace(S2, f, TRUE, bt), f,
                   Text("Please report this to the cppcheck developers!", "", "", 0, 0, 0))
        ELSE S2

\* filterException(code, ex) and the __except block of check_wrapper: what
\* they write, always to stdout
ExceptionReport(S, code) ==
    Write(Write(Write(S, "cout", Text("Internal error: ", "", "", 0, 0, 0)),
                "cout", Text(IF code = "EXCEPTION_ACCESS_VIOLATION" THEN "Access violation"
                             ELSE IF code = "EXCEPTION_STACK_OVERFLOW" THEN "Stack overflow"
                             ELSE "Unknown exception", "", "", 0, 0, 0)),
          "cout", Text("Please report this to the cppcheck developers!", "", "", 0, 0, 0))

WrapperUnchanged ==
    UNCHANGED <<platform, parser, fs, library, settings, errorlist, _files, time1,
                exceptionOutput, loc>>

\* check_wrapper up to its call of check_internal
CheckWrapperEnter ==
    /\ pc = "check_wrapper"
    /\ handlers' = (IF platform = "posix" THEN listofsignals
                    ELSE IF platform = "windows" THEN {"__try"}
                    ELSE {})
    /\ pc' = "check_internal"
    /\ UNCHANGED <<ret, _errorList, calls, trace>>
    /\ WrapperUnchanged

\* check_wrapper returns what check_internal returned
CheckWrapperReturn ==
    /\ pc = "returned"
    /\ pc' = "exit"
    /\ UNCHANGED <<ret, handlers, _errorList, calls, trace>>
    /\ WrapperUnchanged

\* check_internal is running
InDispatcher ==
    pc \in {"check_internal", "loop", "check", "checkFunctionUsage", "executor", "finish"}

\* a signal is delivered while check_internal runs: the handler reports and
\* aborts, or the signal has its default disposition and ends the process
SignalDelivered ==
    /\ platform # "windows"
    /\ InDispatcher
    /\ \E signo \in Signals :
          LET S1 == Write(Sink, "fault", Text(signo, "", "", 0, 0, 0))
          IN  IF signo \in handlers
              THEN /\ \E code \in SiCodes(signo), bt \in Backtraces :
                         SetSink(SignalReport(S1, signo, code, bt))
                   /\ pc' = AfterSignalHandler
              ELSE /\ SetSink(S1)
                   /\ pc' = "killed"
    /\ UNCHANGED <<ret, handlers>>
    /\ WrapperUnchanged

\* a structured exception is raised while check_internal runs inside __try:
\* the filter reports, the __except block is executed and check_wrapper
\* returns -1
ExceptionRaised ==
    /\ platform = "windows"
    /\ InDispatcher
    /\ "__try" \in handlers
    /\ \E code \in ExceptionCodes :
          SetSink(ExceptionReport(Write(Sink, "fault", Text(code, "", "", 0, 0, 0)), code))
    /\ ret' = -1
    /\ pc' = "exit"
    /\ UNCHANGED handlers
    /\ WrapperUnchanged

\* check has called check_wrapper: fault interception is enabled
InitFault ==
    /\ pc = "check_wrapper"
    /\ platform \in {"posix", "windows", "other"}
    /\ exceptionOutput \in {"stderr", "stdout"}
    /\ parser = DefaultParser
    /\ fs = DefaultFs
    /\ \E job \in JobModes :
          /\ library = [DefaultLibrary EXCEPT !.threads = job.threads,
                                              !.after = {getFilenameExtension(AllFiles[1])}]
          /\ settings = [DefaultSettings EXCEPT !._jobs = job.jobs,
                                                !.exceptionHandling = TRUE]
    /\ _files = [f \in {AllFiles[1]} |-> MaxSize]
    /\ errorlist = FALSE
    /\ _errorList = {}
    /\ time1 = 0
    /\ handlers = {}
    /\ loc = NoLoc
    /\ ret = 0
    /\ calls = <<>>
    /\ trace = <<>>

NextFault ==
    \/ CheckWrapperEnter
    \/ CheckInternalEnter
    \/ LoopStep
    \/ EngineReportErr
    \/ CheckReturn
    \/ CheckFunctionUsageReturn
    \/ ExecutorReturn
    \/ CheckInternalFinish
    \/ CheckWrapperReturn
    \/ SignalDelivered
    \/ ExceptionRaised

SpecFault == InitFault /\ [][NextFault]_vars

----------------------------------------------------------------------------
(* reportProgress: the calls the engine makes during an analysis *)

\* bounds of the clock: the latest start of a run, the latest reading, and the
\* number of calls followed
MaxStart == 2
MaxClock == 22
MaxProgressCalls == 3

\* "Report progress messages every 10 seconds"
ProgressInterval == 10

\* the (stage, value) pairs the engine reports
Stages == {<<"Tokenize", 50>>, <<"Check", 100>>}

\* the reportProgress calls made so far, as positions of trace
ProgressCalls == {k \in 1..Len(trace) : trace[k].ch = "reportProgress"}

\* the last reading of std::time: that of the last call, before any call that
\* of check_internal, and 1 in a run that never read the clock
Now ==
    IF \E k \in 1..Len(trace) : trace[k].ch \in {"reportProgress", "std::time"}
    THEN LET k == CHOOSE j \in 1..Len(trace) :
                     /\ trace[j].ch \in {"reportProgress", "std::time"}
                     /\ \A i \in (j + 1)..Len(trace) :
                           trace[i].ch \notin {"reportProgress", "std::time"}
         IN  trace[k].text[5]
    ELSE 1

\* mutant of reportProgress: the message is written but time1 keeps its value
reportProgress_KeepsTime1(S, t1, stage, value, time2) ==
    IF t1 = 0 THEN [S |-> S, time1 |-> t1]
    ELSE IF time2 >= t1 + ProgressInterval
         THEN [S |-> reportOut(S, Text("progress: ", stage, "", value, 0, 0)), time1 |-> t1]
         ELSE [S |-> S, time1 |-> t1]

\* reportProgress(filename, stage, value) when time1 is t1 and std::time(NULL)
\* reads time2: the sink and time1 after the call
reportProgress(S, t1, stage, value, time2) ==
    IF t1 = 0 THEN [S |-> S, time1 |-> t1]
    ELSE IF time2 >= t1 + ProgressInterval
         THEN [S |-> reportOut(S, Text("progress: ", stage, "", value, 0, 0)), time1 |-> time2]
         ELSE [S |-> S, time1 |-> t1]

\* the engine calls reportProgress
CallReportProgress ==
    /\ pc = "analysis"
    /\ Cardinality(ProgressCalls) < MaxProgressCalls
    /\ \E st \in Stages, time2 \in Now..MaxClock :
          LET S1 == Write(Sink, "reportProgress", Text(st[1], "", "", st[2], time2, 0))
              r == reportProgress(S1, time1, st[1], st[2], time2)
          IN  /\ SetSink(r.S)
              /\ time1' = r.time1
    /\ UNCHANGED <<pc, platform, parser, fs, library, settings, errorlist, _files,
                   exceptionOutput, handlers, loc, ret>>

\* the state check_internal starts the analysis in: time1 is the reading of
\* std::time(0) when settings.reportProgress is set and 0 otherwise
InitProgress ==
    /\ pc = "analysis"
    /\ platform = "posix"
    /\ parser = DefaultParser
    /\ fs = DefaultFs
    /\ library = DefaultLibrary
    /\ \E enabled \in BOOLEAN, start \in 1..MaxStart :
          /\ settings = [DefaultSettings EXCEPT !.reportProgress = enabled]
          /\ time1 = (IF enabled THEN start ELSE 0)
          /\ trace = (IF enabled
                      THEN <<Event("std::time", Text("", "", "", 0, start, 0), NoPath)>>
                      ELSE <<>>)
    /\ _files = [f \in {AllFiles[1]} |-> MaxSize]
    /\ errorlist = FALSE
    /\ _errorList = {}
    /\ exceptionOutput = ""
    /\ handlers = {}
    /\ loc = NoLoc
    /\ ret = 0
    /\ calls = <<>>

NextProgress == CallReportProgress

SpecProgress == InitProgress /\ [][NextProgress]_vars

----------------------------------------------------------------------------
(* Observations of a run of check up to the dispatch *)

\* parseFromArgs has returned and had got past the argument parsing
Prepared == pc # "check" /\ parser.success /\ ~parser.exitAfterPrinting

\* check has returned or has called check_wrapper or check_internal
CheckActed == pc \in {"exit", "check_wrapper", "check_internal"}

\* the files the arguments expand to
Expanded == DOMAIN AddPathNames(<<>>, parser.pathNames)

\* what the expansion of this run yielded: it is not reached when the argument
\* parsing fails or asks to exit
ExpansionYield == IF parser.success /\ ~parser.exitAfterPrinting THEN Expanded ELSE {}

Said(text) == \E k \in 1..Len(cout) : cout[k] = text

TimesSaid(text) == Cardinality({k \in 1..Len(cout) : cout[k] = text})

\* C3: the rules for .h and .hpp files are not used for filtering, so a file
\* that no other rule matches stays in _files, and the combined warning is
\* written once when there is such a rule and not at all when there is none.
C3_HeaderRulesNotApplied ==
    (Prepared /\ Expanded # {}) =>
        /\ \A f \in Expanded :
              ~Match(IgnoredWithoutHeaders, CaseSensitive, f) => f \in DOMAIN _files
        /\ TimesSaid(HeaderWarning1) = (IF WarnHeaders THEN 1 ELSE 0)
        /\ TimesSaid(HeaderWarning2) = (IF WarnHeaders THEN 1 ELSE 0)

\* C6 as stated: with _files empty at the end of parseFromArgs, check returns
\* EXIT_FAILURE and calls neither check_internal nor check_wrapper; "all paths
\* ignored" is written exactly when the expansion yielded a file and the
\* exclusion removed every one, "could not find" exactly when the expansion
\* yielded none.
C6_EmptyFileSetFails ==
    (CheckActed /\ DOMAIN _files = {}) =>
        /\ pc = "exit" /\ ret = EXIT_FAILURE
        /\ Said(AllIgnoredError) <=> ExpansionYield # {}
        /\ Prepared => (Said(NoPathsError) <=> ExpansionYield = {})

\* C6 as amended: the same for the runs in which parseFromArgs gets past the
\* argument parsing; when the parsing fails check returns EXIT_FAILURE and when
\* it asks to exit after printing check returns EXIT_SUCCESS, in both cases
\* with neither message and without calling check_internal or check_wrapper.
C6_EmptyFileSetOutcome ==
    (CheckActed /\ DOMAIN _files = {}) =>
        /\ pc = "exit"
        /\ IF parser.success /\ ~parser.exitAfterPrinting
           THEN /\ ret = EXIT_FAILURE
                /\ Said(AllIgnoredError) <=> Expanded # {}
                /\ Said(NoPathsError) <=> Expanded = {}
           ELSE /\ ret = (IF parser.success THEN EXIT_SUCCESS ELSE EXIT_FAILURE)
                /\ ~Said(AllIgnoredError) /\ ~Said(NoPathsError)

\* every file the arguments expand to is excluded by a rule for sources
C6_Witness ==
    /\ CheckActed /\ Prepared
    /\ Cardinality(Expanded) >= 1
    /\ \A f \in Expanded : Match(IgnoredWithoutHeaders, CaseSensitive, f)
    /\ DOMAIN _files = {}
    /\ Said(AllIgnoredError) /\ ~Said(NoPathsError)
    /\ pc = "exit" /\ ret = EXIT_FAILURE

\* the paths of the warnings about include paths, in order
WarnedIncludePaths ==
    LET w == SelectSeq(trace, LAMBDA e : e.ch = "cout" /\ e.path # NoPath)
    IN  [k \in 1..Len(w) |-> w[k].path]

Resolves(path) == toNativeSeparators(path) \in fs.dirs

\* C9: after the include path check settings._includePaths holds the configured
\* paths that are directories, in their order; each removed path is warned
\* about, by name, exactly when the run is not quiet; and a run with a file left
\* after the exclusion goes on to the dispatch.
C9_IncludePaths ==
    Prepared =>
        /\ settings._includePaths = SelectSeq(parser.includePaths, Resolves)
        /\ WarnedIncludePaths =
              (IF settings._errorsOnly THEN <<>>
               ELSE LET gone == SelectSeq(parser.includePaths, LAMBDA d : ~Resolves(d))
                    IN  [k \in 1..Len(gone) |-> toNativeSeparators(gone[k])])
        /\ DOMAIN FilterFiles(AddPathNames(<<>>, parser.pathNames)) # {} =>
              \/ pc = "parsed" /\ ret = 1
              \/ pc \in {"check_wrapper", "check_internal"}

\* the first include path is missing, the second, spelled with a backslash, is
\* a directory: one warning, one path left, and the run goes on
C9_Witness ==
    /\ Prepared /\ platform = "posix" /\ ~settings._errorsOnly
    /\ parser.includePaths = << <<"i">>, <<"p", "\\", "i">> >>
    /\ settings._includePaths = << <<"p", "\\", "i">> >>
    /\ WarnedIncludePaths = << <<"i">> >>
    /\ pc = "check_internal"

----------------------------------------------------------------------------
(* Observations of a run of check_internal *)

Returned == pc = "returned"

\* positions of the history where op was called or ch was written
At(ch) == {k \in 1..Len(trace) : trace[k].ch = ch}

\* positions where text was written to std::cerr
CerrAt(text) == {k \in At("cerr") : trace[k].text = text}

\* the counts the engine and the executor returned, in order
ReturnedCounts ==
    LET returns == Written("return")
    IN  [k \in 1..Len(returns) |-> <<returns[k].text[4], returns[k].text[5]>>]

\* their sum as unsigned int
RECURSIVE UIntSum(_)
UIntSum(counts) ==
    IF counts = <<>> THEN UIntZero ELSE UIntAdd(UIntSum(Tail(counts)), Head(counts))

Aggregate == UIntSum(ReturnedCounts)

Header == getXMLHeader(settings._xml_version)
Footer == getXMLFooter(settings._xml_version)

\* C2 as stated: the value check_internal returns is non-zero exactly when the
\* aggregate defect count is non-zero.
C2_NonZeroIffDefects ==
    Returned => ((ret # 0) <=> (Aggregate # UIntZero))

\* C2 as amended: check_internal returns EXIT_FAILURE when a cfg file fails to
\* load; otherwise it returns the configured exit code when the aggregate defect
\* count (an unsigned int) is non-zero and 0 when it is zero, so the status is
\* non-zero exactly when defects were counted and the configured code is not 0.
C2_ExitStatus ==
    Returned =>
        /\ ~LoadsOK => ret = EXIT_FAILURE /\ Aggregate = UIntZero
        /\ LoadsOK => ret = (IF Aggregate # UIntZero THEN settings._exitCode ELSE 0)
        /\ LoadsOK => ((ret # 0) <=> (Aggregate # UIntZero /\ settings._exitCode # 0))

\* a sequential run over two files, one with a defect, returns the configured code
C2_Witness ==
    /\ Returned /\ LoadsOK
    /\ settings._jobs = 1
    /\ ReturnedCounts = <<UIntOne, UIntZero>>
    /\ settings._exitCode = 2
    /\ ret = 2

\* C4: when check_internal returns in a structured run, std::cerr holds
\* exactly one header and one footer, the header first and the footer last, so
\* every diagnostic lies between them.
C4_HeaderAndFooterOnEveryReturn ==
    (Returned /\ settings._xml) =>
        /\ Cardinality(CerrAt(Header)) = 1
        /\ Cardinality(CerrAt(Footer)) = 1
        /\ \A k \in At("cerr") :
              /\ \A h \in CerrAt(Header) : h <= k
              /\ \A f \in CerrAt(Footer) : k <= f

\* a file is kept for the second pass
AfterCode(path) == markupFile(path) /\ processMarkupAfterCode(path)

\* C5: in the order of the calls of CppCheck::check no markup file that asks
\* for processing after the code comes before any other file, and when such a
\* file is analysed every other file of the file set has been analysed.
C5_CodeBeforeMarkup ==
    LET checks == At("check")
        after == {f \in DOMAIN _files : AfterCode(f)}
    IN  \A k \in checks :
            trace[k].path \in after =>
                /\ \A j \in checks : (j > k) => trace[j].path \in after
                /\ \A f \in DOMAIN _files \ after :
                      \E j \in checks : j < k /\ trace[j].path = f

\* the markup file sorts first in _files and is analysed last
C5_Witness ==
    /\ Returned
    /\ Len(Keys) = 2
    /\ AfterCode(Keys[1]) /\ ~AfterCode(Keys[2])
    /\ [k \in 1..Len(Written("check")) |-> Written("check")[k].path] = <<Keys[2], Keys[1]>>

NoThreadText == Text("No thread support", "", "", 0, 0, 0)

\* what C7 says of a run that has returned
DegradedRun ==
    /\ Len(SelectSeq(cout, LAMBDA t : t = NoThreadText)) = 1
    /\ At("check") = {}
    /\ At("ThreadExecutor::check") = {}
    /\ At("checkFunctionUsage") = {}
    /\ loc.returnValue = UIntZero
    /\ ret = 0

\* C7 as stated: with a worker count other than 1 and no thread support,
\* check_internal writes the message, analyses nothing, calls neither the
\* executor nor the post-pass, counts 0 defects and returns 0.
C7_Degraded ==
    (Returned /\ settings._jobs # 1 /\ ~library.threads) => DegradedRun

\* C7 as amended: the same, for the runs in which the cfg files load.
C7_DegradedWhenLoaded ==
    (Returned /\ settings._jobs # 1 /\ ~library.threads /\ LoadsOK) => DegradedRun

\* a degraded run that has returned, with an exit code configured
C7_Witness ==
    /\ Returned /\ settings._jobs # 1 /\ ~library.threads /\ LoadsOK
    /\ settings._exitCode = 2
    /\ cout = <<NoThreadText>>
    /\ ret = 0

\* what C10 says of a run that has returned
PostPassOnce ==
    IF settings._jobs = 1
    THEN /\ Cardinality(At("checkFunctionUsage")) = 1
         /\ \A p \in At("checkFunctionUsage") :
               /\ \A k \in At("check") \cup At("return") : k < p
               /\ \A f \in CerrAt(Footer) : p < f
         /\ settings._xml => CerrAt(Footer) # {}
    ELSE /\ At("checkFunctionUsage") = {}
         /\ At("ThreadExecutor::check") # {} =>
               /\ Len(ReturnedCounts) = 1
               /\ loc.returnValue = ReturnedCounts[1]

\* C10 as stated: a sequential run calls checkFunctionUsage exactly once, after
\* the last analysis and before the footer; a parallel run never calls it and
\* its aggregate is the count the executor returned.
C10_PostPass ==
    Returned => PostPassOnce

\* C10 as amended: the same, for the runs in which the cfg files load.
C10_PostPassWhenLoaded ==
    (Returned /\ LoadsOK) => PostPassOnce

\* a structured sequential run: two analyses, then the post-pass, then the footer
C10_Witness ==
    /\ Returned /\ LoadsOK /\ settings._jobs = 1 /\ settings._xml
    /\ Cardinality(At("check")) = 2
    /\ \E p \in At("checkFunctionUsage"), f \in CerrAt(Footer) :
          /\ p < f
          /\ \A k \in At("check") : k < p

\* a parallel run: the executor's count is the aggregate
C10_WitnessParallel ==
    /\ Returned /\ settings._jobs = 2 /\ library.threads
    /\ ReturnedCounts = <<UIntMax>>
    /\ loc.returnValue = UIntMax

----------------------------------------------------------------------------
(* Observations of a fault *)

\* a fault that is intercepted has occurred: a signal of listofsignals in the
\* POSIX build, a structured exception in the Windows build
FaultAt ==
    {k \in At("fault") : \/ platform = "windows"
                         \/ platform = "posix" /\ trace[k].text[1] \in listofsignals}

\* everything after the fault is the report, on the stream ch
ReportOn(ch) ==
    \A k \in FaultAt :
        /\ k < Len(trace)
        /\ \A j \in (k + 1)..Len(trace) : trace[j].ch = ch

\* C8 as stated: after an intercepted fault the report is on the configured
\* stream and the process has been aborted; check_wrapper has not returned.
C8_ReportThenAbort ==
    FaultAt # {} => (pc = "aborted" /\ ReportOn(ExceptionFile))

\* C8 as amended: in the POSIX build the handler writes the report to the
\* configured stream and aborts, so check_wrapper never returns; in the Windows
\* build the filter writes the report to stdout, the faulted execution is not
\* resumed, and check_wrapper returns -1 to its caller.
C8_ReportThenAbortOrReturn ==
    FaultAt # {} =>
        IF platform = "windows"
        THEN pc = "exit" /\ ret = -1 /\ ReportOn("cout")
        ELSE pc = "aborted" /\ ReportOn(ExceptionFile)

\* a segmentation fault during the analysis of a file, reported to stderr
C8_Witness ==
    /\ platform = "posix" /\ exceptionOutput = "stderr"
    /\ pc = "aborted"
    /\ \E k \in FaultAt :
          /\ trace[k].text[1] = "SIGSEGV"
          /\ k > 1
          /\ trace[k - 1].ch = "check"
          /\ Len(trace) = k + 4

\* an access violation in the Windows build: check_wrapper has returned -1
C8_WitnessWindows ==
    /\ platform = "windows" /\ exceptionOutput = "stderr"
    /\ pc = "exit" /\ ret = -1
    /\ FaultAt # {}

\* the report of the fault at k holds a call trace
HasCallTrace(k) ==
    \E j \in (k + 1)..Len(trace) : trace[j].text[1] \in {"Callstack:", "#%-2d 0x"}

\* the frames written in the report of the fault at k, as <<ordinal, frame>>
FramesWritten(k) ==
    LET w == SelectSeq(SubSeq(trace, k + 1, Len(trace)), LAMBDA e : e.text[1] = "#%-2d 0x")
    IN  [j \in 1..Len(w) |-> <<w[j].text[4], w[j].text[5]>>]

\* C11: the report of the POSIX handler holds a call trace exactly when the
\* signal is not SIGINT; for SIGINT it is the one-line form, and for SIGBUS,
\* SIGFPE, SIGILL and SIGSEGV the trace written has at most 32 captured frames
\* less the 3 innermost.
C11_CallTraceUnlessInterrupt ==
    \A k \in FaultAt :
        platform = "posix" =>
            /\ HasCallTrace(k) <=> trace[k].text[1] # "SIGINT"
            /\ trace[k].text[1] = "SIGINT" => Len(trace) = k + 2
            /\ Len(FramesWritten(k)) <= StackArrayLength - offset
            /\ \A j \in 1..Len(FramesWritten(k)) :
                  FramesWritten(k)[j] = <<j - 1, j - 1 + offset>>

----------------------------------------------------------------------------
(* Observations of reportProgress *)

\* the progress messages written, as positions of trace
ProgressMessages ==
    {k \in 1..Len(trace) : trace[k].ch = "cout" /\ trace[k].text[1] = "progress: "}

\* the clock reading of the call that wrote the message at k: the call is the
\* event before it
ReadingAt(k) == trace[k - 1].text[5]

\* any two progress messages are at least ProgressInterval apart, and the first
\* is at least that long after the start
MessagesApart ==
    /\ \A k \in ProgressMessages :
          /\ k > 1 /\ trace[k - 1].ch = "reportProgress"
          /\ trace[1].ch = "std::time"
          /\ ReadingAt(k) >= trace[1].text[5] + ProgressInterval
    /\ \A j, k \in ProgressMessages :
          j < k => ReadingAt(k) >= ReadingAt(j) + ProgressInterval

\* one call of reportProgress: it writes a message exactly when time1 is not 0
\* and the reading is at least time1 + 10; it then sets time1 to the reading,
\* and otherwise leaves time1 and the output alone
ProgressStep ==
    LET n == Len(trace)
        time2 == trace'[n + 1].text[5]
        emits == time1 # 0 /\ time2 >= time1 + ProgressInterval
    IN  /\ Len(trace') > n
        /\ trace'[n + 1].ch = "reportProgress"
        /\ time2 >= Now
        /\ IF emits
           THEN /\ Len(trace') = n + 2
                /\ trace'[n + 2] = Event("cout", Text("progress: ", trace'[n + 1].text[1], "",
                                                      trace'[n + 1].text[4], 0, 0), NoPath)
                /\ time1' = time2
           ELSE /\ Len(trace') = n + 1
                /\ time1' = time1

\* C12: over calls with non-decreasing clock readings, no message is written
\* while time1 is 0; a call writes a message only when its reading is at least
\* 10 after time1 (the start or the last message), so any two messages are at
\* least 10 apart; a call that writes sets time1 to its reading and a call that
\* does not leaves time1 unchanged.
C12_RateLimited == [](MessagesApart) /\ [][ProgressStep]_vars

\* started at 1: a call at 5 writes nothing, the calls at 11 and 21 each write
C12_Witness ==
    /\ pc = "analysis"
    /\ [k \in 1..Len(trace) |-> trace[k].ch] =
          <<"std::time", "reportProgress", "reportProgress", "cout", "reportProgress", "cout">>
    /\ trace[1].text[5] = 1 /\ trace[2].text[5] = 5
    /\ trace[3].text[5] = 11 /\ trace[5].text[5] = 21
    /\ time1 = 21

----------------------------------------------------------------------------
(* Observations of the sequential passes *)

\* the two loops of a sequential run have ended
PassesEnded ==
    /\ settings._jobs = 1
    /\ LoadsOK
    /\ pc \in {"checkFunctionUsage", "finish", "returned"}

\* the number of files of the file set
FileCount == Cardinality(DOMAIN _files)

\* the calls of reportStatus, in order, as <<index, total, bytesDone, bytesTotal>>
StatusReports ==
    LET heads == Written("reportStatus")
        sizes == Written("reportStatus.sizes")
    IN  [k \in 1..Len(heads) |->
            <<heads[k].text[4], heads[k].text[5], sizes[k].text[4], sizes[k].text[5]>>]

\* the status lines written to std::cout
StatusLines == SelectSeq(cout, LAMBDA t : t[1] = "status")

\* C13: in a sequential run that is not quiet a status report is made right
\* after each analysed file, with the indexes 1, 2, ... in order, the total N
\* and bytesDone never decreasing; when the passes have ended there are N
\* reports and the last has bytesDone = bytesTotal; a quiet run makes no
\* report; and status lines are written only when N > 1.
C13_StatusReports ==
    (settings._jobs = 1) =>
        LET reports == StatusReports
            n == FileCount
        IN  /\ Len(Written("reportStatus.sizes")) = Len(reports)
            /\ IF settings._errorsOnly
               THEN reports = <<>>
               ELSE /\ Len(reports) = Len(Written("return"))
                    /\ \A k \in At("reportStatus") : k > 1 /\ trace[k - 1].ch = "return"
                    /\ \A j \in 1..Len(reports) :
                          /\ reports[j][1] = j
                          /\ reports[j][2] = n
                          /\ j > 1 => reports[j][3] >= reports[j - 1][3]
                    /\ PassesEnded =>
                          /\ Len(reports) = n
                          /\ reports[n][3] = reports[n][4]
            /\ Len(StatusLines) = (IF n > 1 THEN Len(reports) ELSE 0)

\* two files of one byte each: the reports are (1, 2, 1, 2) and (2, 2, 2, 2),
\* and two status lines are written
C13_Witness ==
    /\ PassesEnded /\ Returned /\ ~settings._errorsOnly
    /\ StatusReports = << <<1, 2, 1, 2>>, <<2, 2, 2, 2>> >>
    /\ Len(StatusLines) = 2

\* a single file of one byte: one report, no status line
C13_WitnessSingle ==
    /\ PassesEnded /\ Returned /\ ~settings._errorsOnly
    /\ StatusReports = << <<1, 1, 1, 1>> >>
    /\ StatusLines = <<>>

\* the number of times CppCheck::check was called for path
TimesChecked(path) == Cardinality({k \in At("check") : trace[k].path = path})

\* C14: when the two passes of a sequential run have ended, CppCheck::check has
\* been called exactly once for each file of the file set and for nothing
\* else, and returnValue is the sum, modulo 2^32, of the counts returned.
C14_EachFileOnce ==
    PassesEnded =>
        LET counts == ReturnedCounts
        IN  /\ \A f \in DOMAIN _files : TimesChecked(f) = 1
            /\ \A k \in At("check") : trace[k].path \in DOMAIN _files
            /\ Len(counts) = FileCount
            /\ loc.returnValue = UIntSum(counts)

\* a markup file processed after the code and a source file: the first returns
\* UINT_MAX, the second 1, and the sum wraps to 0
C14_Witness ==
    /\ PassesEnded /\ Returned
    /\ FileCount = 2
    /\ \E f \in DOMAIN _files : AfterCode(f)
    /\ \E f \in DOMAIN _files : ~AfterCode(f)
    /\ ReturnedCounts = <<UIntMax, UIntOne>>
    /\ loc.returnValue = UIntZero

====
